---- MODULE Spec2Model ----
(***************************************************************************)
(* A model of the photoMaker backend: the passport crop planner            *)
(* (app/image/smart_crop.py), the matte engine (app/image/background.py)   *)
(* and the upload pipeline (app/api/v1/photos.py).                         *)
(*                                                                         *)
(* Numbers.  Pixel coordinates and lengths are held as integers in units   *)
(* of 1/Q pixel, Q = 200, so that every product with the ratios of the     *)
(* code (0.32, 0.45, 0.50, 0.25) is exact.  Millimetres are held in tenths *)
(* of a millimetre.  Python's int() is Trunc (towards zero).               *)
(***************************************************************************)
EXTENDS Integers, Sequences, FiniteSets, TLC

VARIABLES
    \* ---- smart_crop_passport: its arguments ----
    img,                \* the image: size and pixel content (see Images)
    face_landmarks,     \* index -> <<x, y>> in pixels, or <<>> for None
    target_w_mm,        \* tenths of a millimetre
    target_h_mm,        \* tenths of a millimetre
    fault,              \* the step at which an array/memory error is raised
    \* ---- control ----
    pc,                 \* position in smart_crop_passport / estimate_hair_top_y
    hair_path,          \* the return path estimate_hair_top_y took
    excepted,           \* smart_crop_passport entered its except handler
    \* ---- locals of smart_crop_passport (1/Q pixel) ----
    eye_center_x, face_core_h, hair_top_y, full_head_h, crop_h,
    crop_w,             \* a rational [num, den] in 1/Q pixel
    frame_top, frame_bottom,
    frame_left, frame_right,   \* rationals [num, den] in 1/Q pixel
    pad,                \* whole pixels
    box,                \* <<left, upper, right, lower>> in whole pixels
    result,             \* what the call returned
    \* ---- locals of estimate_hair_top_y ----
    fallback_hair_top,  \* 1/Q pixel
    bg_color,           \* red channel of the border median, 1/Q level
    x1, x2, max_scan_y, \* whole pixels
    fg_threshold,       \* 1/Q level
    min_fg_pixels,
    first_subject_y,    \* <<>> for None, <<y>> otherwise
    \* ---- the first of two calls compared by the aspect lock ----
    first_call,
    \* ---- remove_background ----
    mpc,                \* position in remove_background
    mfault,             \* the refinement stage at which cv2 / numpy raises
    mpath,              \* "refined" or "fallback": how the result was made
    alpha_base,         \* pixel -> raw 8-bit alpha of the provider
    decontaminated,     \* decontam_rgb is the blended colour (a core exists)
    alpha_precise,      \* pixel -> guided-filter output, thousandths
    final_alpha_f,      \* pixel -> alpha in millionths
    out_alpha,          \* pixel -> 8-bit alpha of the returned image
    \* ---- upload_photo ----
    upc,                \* position in upload_photo
    content_is_image,   \* file.content_type starts with "image/"
    transparent_png,    \* form field
    draw_debug_overlays,\* form field
    detected,           \* what the two detectors returned
    status,             \* local variable status
    compliance_result,  \* local variable compliance_result
    final_img,          \* mode of final_img
    save_format,        \* local variable save_format
    processed_path,     \* local variable processed_path
    original_saved,     \* the original file is on disk
    processed_file,     \* the processed file on disk
    session_new,        \* objects added to the DB session, not yet committed
    photos,             \* committed rows of table photos
    response,           \* what the caller receives
    steps,              \* the pipeline steps that have returned, in order
    \* ---- draw_overlays ----
    opc,                \* position in draw_overlays
    ov_face_core_h,     \* its local face_core_h, 1/Q pixel
    ov_hair_top_y,      \* its local hair_top_y, 1/Q pixel
    ov_face_display_h   \* its local face_display_h, 1/Q pixel

cropVars == << img, face_landmarks, target_w_mm, target_h_mm, fault, pc,
               hair_path, excepted, eye_center_x, face_core_h, hair_top_y,
               full_head_h, crop_h, crop_w, frame_top, frame_bottom,
               frame_left, frame_right, pad, box, result,
               fallback_hair_top, bg_color, x1, x2, max_scan_y,
               fg_threshold, min_fg_pixels, first_subject_y, first_call >>

matteVars == << mpc, mfault, mpath, alpha_base, decontaminated,
                alpha_precise, final_alpha_f, out_alpha >>

uploadVars == << upc, content_is_image, transparent_png, draw_debug_overlays,
                 detected, status, compliance_result, final_img, save_format,
                 processed_path, original_saved, processed_file, session_new,
                 photos, response, steps >>

overlayVars == << opc, ov_face_core_h, ov_hair_top_y, ov_face_display_h >>

vars == << cropVars, matteVars, uploadVars, overlayVars >>

---------------------------------------------------------------------------
(* Arithmetic *)

Max(a, b) == IF a >= b THEN a ELSE b
Min(a, b) == IF a <= b THEN a ELSE b
Abs(a) == IF a >= 0 THEN a ELSE -a

\* Python int(n / d) for d > 0: truncation towards zero.
Trunc(n, d) == IF n >= 0 THEN n \div d ELSE -((-n) \div d)

\* Python round(n / d) for n >= 0, d > 0 (no exact halves arise for d = 254).
RoundDiv(n, d) == (2 * n + d) \div (2 * d)

\* The greatest common divisor of a >= 0 and b >= 0.
RECURSIVE GCD(_, _)
GCD(a, b) == IF b = 0 THEN a ELSE GCD(b, a % b)

\* 1/Q pixel; 200 = lcm of the denominators of 0.32, 0.45, 0.25 and 1/2.
Q == 8 * 25

None == << >>

---------------------------------------------------------------------------
(* Program constants of smart_crop.py (ratios in hundredths) *)

DEFAULT_HAIR_BUFFER == 32
DPI == 300
MIN_DIM == 20
BORDER_ROWS == 8
BORDER_COLS == 4
BAND_MIN_HALF_W == 30
BAND_RATIO == 45
MIN_BAND_W == 12
MIN_SCAN_Y == 5
PERCENTILE == 97
FLOOR_MARGIN == 6
FG_FLOOR == 18
MIN_FG == 6
FG_RATIO == 6
STREAK == 3
MIN_SAFETY == 2
SAFETY_RATIO == 2
MAX_LIFT_RATIO == 45
FACE_RATIO == 50
PAD_RATIO == 60
LEFT_EYE == 33
RIGHT_EYE == 263
TOP_HEAD == 10
CHIN == 152

Required == {LEFT_EYE, RIGHT_EYE, TOP_HEAD, CHIN}

---------------------------------------------------------------------------
(* Images.  An image is w x h pixels whose colour varies in the red channel *)
(* only (green and blue are the same everywhere), so the Euclidean colour   *)
(* distance of the code is the absolute red difference.  Row y holds a      *)
(* centred run of RowWidth pixels of level RowLevel on a background of      *)
(* level Level.bg: the subject from row `start` down, and one streak of   *)
(* `nlen` rows at `nrow` above it (a busy background, a stray object).      *)

\* 8-bit red levels: a white background, dark hair, and an off-white that is
\* nearer to the background than the foreground floor of 18.
Level == [bg |-> 255, fg |-> 40, faint |-> 245]

\* The bounds of the model: the size of the scanned images.
ImgW == 24
ImgH == 24

Image(w, h, start, sw, nrow, nlen, nw, nlev) ==
    [w |-> w, h |-> h, start |-> start, sw |-> sw,
     nrow |-> nrow, nlen |-> nlen, nw |-> nw, nlev |-> nlev]

Uniform(w, h) == Image(w, h, h, 0, 0, 0, 0, Level.bg)

Streaks == { <<0, 0, 0, Level.bg>>,         \* none
             <<1, 2, 10, Level.fg>>,        \* a busy top: raises the floor
             <<9, 2, 10, Level.fg>>,        \* two rows: too short a run
             <<9, 3, 10, Level.fg>>,        \* three rows: a run
             <<9, 3, ImgW, Level.faint>>,   \* three rows below the threshold
             <<9, 4, 4, Level.fg>> }        \* too narrow to count

Images ==
    { Uniform(1, 1), Uniform(MIN_DIM - 1, ImgH), Uniform(ImgW, MIN_DIM - 1),
      Uniform(ImgW, ImgH) }
    \cup { Image(ImgW, ImgH, c[1], c[2], 0, 0, 0, Level.bg) :
             c \in { <<0, 10>>, <<7, 6>>, <<7, 10>>, <<9, 6>>, <<9, 10>>, <<14, 10>>,
                     <<18, 10>> } }
    \cup { Image(ImgW, ImgH, s, 10, n[1], n[2], n[3], n[4]) :
             s \in {14, ImgH}, n \in Streaks }
    \cup { Image(ImgW, ImgH, 9, 10, 1, 2, 10, Level.fg) }
    \* a wide image with a stray object in its first three rows, small
    \* enough to leave the 97th percentile of the top rows at 0
    \cup { Image(4 * ImgW, ImgH, 14, 10, 0, 3, 6, Level.fg) }

InStreak(im, y) == y >= im.nrow /\ y < im.nrow + im.nlen

RowWidth(im, y) == IF y >= im.start THEN im.sw
                   ELSE IF InStreak(im, y) THEN im.nw ELSE 0

RowLevel(im, y) == IF y >= im.start THEN Level.fg
                   ELSE IF InStreak(im, y) THEN im.nlev ELSE Level.bg

\* The red level of pixel (x, y).
Pix(im, x, y) ==
    LET wd == Min(RowWidth(im, y), im.w)
        s == (im.w - wd) \div 2
    IN IF x >= s /\ x < s + wd THEN RowLevel(im, y) ELSE Level.bg

Levels == {Level.bg, Level.fg, Level.faint}

---------------------------------------------------------------------------
(* The array computations of estimate_hair_top_y *)

\* The number of pixels x in a .. b-1 of row y whose level is in S: the
\* cardinality of {x \in a .. b-1 : Pix(im, x, y) \in S}, counted from the
\* row's run instead of pixel by pixel.
RowCountIn(im, y, a, b, S) ==
    LET wd == Min(RowWidth(im, y), im.w)
        s == (im.w - wd) \div 2
        n == Max(0, b - a)
        ov == Max(0, Min(b, s + wd) - Max(a, s))
    IN (IF RowLevel(im, y) \in S THEN ov ELSE 0)
       + (IF Level.bg \in S THEN n - ov ELSE 0)

\* The number of pixels of the strip of columns a .. b-1 and rows lo .. hi-1
\* whose level is in S.
RECURSIVE StripCountIn(_, _, _, _, _, _)
StripCountIn(im, a, b, lo, hi, S) ==
    IF lo >= hi THEN 0
    ELSE RowCountIn(im, lo, a, b, S) + StripCountIn(im, a, b, lo + 1, hi, S)

\* border_samples: the top 8 rows, the left 4 and the right 4 columns (a
\* corner pixel is sampled once per strip it lies in).  The number of samples
\* whose level is in S.
BorderCountIn(im, S) ==
    StripCountIn(im, 0, im.w, 0, Min(BORDER_ROWS, im.h), S)
    + StripCountIn(im, 0, Min(BORDER_COLS, im.w), 0, im.h, S)
    + StripCountIn(im, Max(0, im.w - BORDER_COLS), im.w, 0, im.h, S)

BorderN(im) == BorderCountIn(im, Levels)

\* The k-th smallest border sample (k from 0).
KthBorder(im, k) ==
    CHOOSE v \in Levels :
        /\ BorderCountIn(im, {u \in Levels : u <= v}) > k
        /\ BorderCountIn(im, {u \in Levels : u < v}) <= k

\* np.median(border_samples, axis=0), red channel, in 1/Q level: the middle
\* sample, or the mean of the two middle samples.
BorderMedian(im) ==
    LET n == BorderN(im)
    IN IF n % 2 = 1 THEN Q * KthBorder(im, n \div 2)
       ELSE (Q \div 2) * (KthBorder(im, n \div 2 - 1) + KthBorder(im, n \div 2))

\* color_distance = ||rgb - bg_color|| of a pixel of level v, in 1/Q level.
ColorDistance(bg, v) == Abs(Q * v - bg)

\* The number of pixels of color_distance[:8, :] whose level is in S.
TopCountIn(im, S) == StripCountIn(im, 0, im.w, 0, Min(BORDER_ROWS, im.h), S)

\* The k-th smallest value of color_distance[:8, :] (k from 0).
KthTop(im, bg, k) ==
    CHOOSE d \in { ColorDistance(bg, v) : v \in Levels } :
        /\ TopCountIn(im, {u \in Levels : ColorDistance(bg, u) <= d}) > k
        /\ TopCountIn(im, {u \in Levels : ColorDistance(bg, u) < d}) <= k

\* np.percentile(color_distance[:8, :], 97): linear interpolation between the
\* two samples around position 0.97 * (n - 1).
DynamicFloor(im, bg) ==
    LET n == TopCountIn(im, Levels)
        pos == PERCENTILE * (n - 1)
        lo == pos \div 100
        a == KthTop(im, bg, lo)
        b == KthTop(im, bg, Min(lo + 1, n - 1))
    IN a + ((pos % 100) * (b - a)) \div 100

\* np.count_nonzero(color_distance[y, x1:x2] > fg_threshold)
FgCount(im, bg, thr, a, b, y) ==
    RowCountIn(im, y, a, b, {v \in Levels : ColorDistance(bg, v) > thr})

\* A variant of ScanRows in which a row that does not qualify leaves the
\* count as it is.
RECURSIVE ScanRowsNoReset(_, _, _, _, _, _, _, _, _)
ScanRowsNoReset(im, bg, thr, a, b, minfg, limit, y, streak) ==
    IF y >= limit THEN None
    ELSE IF FgCount(im, bg, thr, a, b, y) >= minfg
         THEN IF streak + 1 >= STREAK THEN << y - 2 >>
              ELSE ScanRowsNoReset(im, bg, thr, a, b, minfg, limit, y + 1, streak + 1)
         ELSE ScanRowsNoReset(im, bg, thr, a, b, minfg, limit, y + 1, streak)

\* for y in range(max_scan_y): ... ; the value of first_subject_y after the loop.
RECURSIVE ScanRows(_, _, _, _, _, _, _, _, _)
ScanRows(im, bg, thr, a, b, minfg, limit, y, streak) ==
    IF y >= limit THEN None
    ELSE IF FgCount(im, bg, thr, a, b, y) >= minfg
         THEN IF streak + 1 >= STREAK THEN << y - 2 >>
              ELSE ScanRows(im, bg, thr, a, b, minfg, limit, y + 1, streak + 1)
         ELSE ScanRows(im, bg, thr, a, b, minfg, limit, y + 1, 0)

\* A variant of mm_to_px that rounds to the nearest pixel.
mm_to_px_round(mm) == RoundDiv(mm * DPI, 254)

\* mm_to_px: int((mm * dpi) / 25.4), mm in tenths of a millimetre.
mm_to_px(mm) == Trunc(mm * DPI, 254)


---------------------------------------------------------------------------
(* The inputs of smart_crop_passport *)

\* The four required landmarks, forehead and chin on the eye-line centre.
Face(top_y, chin_y, lx, rx) ==
    [i \in Required |->
        CASE i = TOP_HEAD -> << (lx + rx) \div 2, top_y >>
          [] i = CHIN -> << (lx + rx) \div 2, chin_y >>
          [] i = LEFT_EYE -> << lx, (top_y + chin_y) \div 2 >>
          [] OTHER -> << rx, (top_y + chin_y) \div 2 >>]

Faces ==
    { Face(12, 20, 8, 16),      \* upright, inside the image
      Face(14, 22, 9, 16),      \* eye-line centre on a half pixel
      Face(12, 20, 40, 50),     \* eyes to the right of the image: a narrow band
      Face(12, 12, 8, 16),      \* forehead and chin on one row
      Face(20, 12, 8, 16),      \* chin above the forehead (an inverted face)
      Face(1, 4, 8, 16),        \* chin in the first rows
      Face(100, 300, 8, 16),    \* a face larger than the image
      Face(16, 23, 6, 14),
      Face(2, 22, 8, 16) }      \* a close-up: the face fills the image height

LandmarkSets ==
    Faces \cup { [Face(12, 20, 8, 16) EXCEPT ![i] = None] : i \in Required }

\* (target_w_mm, target_h_mm) in tenths of a millimetre.
Targets == { <<350, 450>>, <<330, 480>>, <<350, 0>>, <<0, 450>> }

\* The target of the calls in which a fault is injected.
DefaultTarget == <<350, 450>>

\* The step of estimate_hair_top_y's try block (or the canvas allocation of
\* smart_crop_passport) at which numpy / PIL raises, e.g. a MemoryError.
HairFaults == {"convert", "border", "band", "limit", "threshold", "scan", "clamp"}
Faults == {"none", "canvas"} \cup HairFaults

\* draw_overlays is not running.
OverlayIdle ==
    /\ opc = "idle"
    /\ ov_face_core_h = 0
    /\ ov_hair_top_y = 0
    /\ ov_face_display_h = 0

\* remove_background is not running.
MatteIdle ==
    /\ mpc = "idle"
    /\ mfault = "none"
    /\ mpath = "none"
    /\ alpha_base = None
    /\ decontaminated = FALSE
    /\ alpha_precise = None
    /\ final_alpha_f = None
    /\ out_alpha = None

NoResponse == [kind |-> "none", code |-> 0, status |-> "", reason |-> "",
               processed_url |-> ""]

NoFile == [format |-> "", mode |-> ""]

UploadLocalsInit ==
    /\ detected = [bbox |-> FALSE, landmarks |-> FALSE]
    /\ status = ""
    /\ compliance_result = ""
    /\ final_img = ""
    /\ save_format = ""
    /\ processed_path = ""
    /\ original_saved = FALSE
    /\ processed_file = NoFile
    /\ session_new = {}
    /\ photos = {}
    /\ response = NoResponse
    /\ steps = << >>

\* upload_photo is not running.
UploadIdle ==
    /\ upc = "idle"
    /\ content_is_image = TRUE
    /\ transparent_png = FALSE
    /\ draw_debug_overlays = TRUE
    /\ UploadLocalsInit

NoResult == [kind |-> "none", w |-> 0, h |-> 0, src |-> "none"]

CropLocalsInit ==
    /\ hair_path = "none"
    /\ excepted = FALSE
    /\ eye_center_x = 0 /\ face_core_h = 0 /\ hair_top_y = 0
    /\ full_head_h = 0 /\ crop_h = 0 /\ crop_w = None
    /\ frame_top = 0 /\ frame_bottom = 0
    /\ frame_left = None /\ frame_right = None
    /\ pad = 0 /\ box = None
    /\ result = NoResult
    /\ fallback_hair_top = 0 /\ bg_color = 0
    /\ x1 = 0 /\ x2 = 0 /\ max_scan_y = 0
    /\ fg_threshold = 0 /\ min_fg_pixels = 0
    /\ first_subject_y = None

InitCrop ==
    /\ img \in Images
    /\ face_landmarks \in LandmarkSets
    /\ \E t \in Targets, f \in Faults :
          /\ f = "none" \/ t = DefaultTarget
          /\ target_w_mm = t[1] /\ target_h_mm = t[2]
          /\ fault = f
    /\ first_call = None
    /\ pc = "start"
    /\ CropLocalsInit
    /\ MatteIdle
    /\ UploadIdle
    /\ OverlayIdle

\* What no step of smart_crop_passport changes: its arguments, and the state
\* of the other components.
inputVars == << img, face_landmarks, target_w_mm, target_h_mm, fault,
               first_call, matteVars, uploadVars, overlayVars >>
hairLocals == << fallback_hair_top, bg_color, x1, x2, max_scan_y,
                 fg_threshold, min_fg_pixels, first_subject_y >>
geomLocals == << full_head_h, crop_h, crop_w, frame_top, frame_bottom,
                 frame_left, frame_right >>

---------------------------------------------------------------------------
(* smart_crop_passport, lines 98-111 *)

LandmarkY(i) == face_landmarks[i][2]
LandmarkX(i) == face_landmarks[i][1]

\* Lines 99-111: read the image size and the four landmarks.  Subscripting a
\* landmark that is None raises TypeError inside the try block.
CropLandmarks ==
    /\ pc = "start"
    /\ IF \E i \in Required : face_landmarks[i] = None
       THEN /\ pc' = "except"
            /\ UNCHANGED << eye_center_x, face_core_h >>
       ELSE /\ eye_center_x' = (Q \div 2) * (LandmarkX(LEFT_EYE) + LandmarkX(RIGHT_EYE))
            /\ face_core_h' = Q * Abs(LandmarkY(CHIN) - LandmarkY(TOP_HEAD))
            /\ pc' = "hair_entry"
    /\ UNCHANGED << inputVars, hairLocals, geomLocals, hair_path, excepted,
                    hair_top_y, pad, box, result >>

---------------------------------------------------------------------------
(* estimate_hair_top_y *)

\* return <value> of estimate_hair_top_y: control goes back to line 119.
HairReturn(value, path) ==
    /\ hair_top_y' = value
    /\ hair_path' = path
    /\ pc' = "geometry"

\* A step of the try block raises: control goes to the handler of line 87.
HairRaise ==
    /\ pc' = "hair_except"
    /\ UNCHANGED << hair_top_y, hair_path >>

hairFrame == << inputVars, geomLocals, excepted, eye_center_x, face_core_h,
                pad, box, result >>

\* Line 29.
HairEntry ==
    /\ pc = "hair_entry"
    /\ fallback_hair_top' =
           Q * LandmarkY(TOP_HEAD) - (face_core_h * DEFAULT_HAIR_BUFFER) \div 100
    /\ pc' = "hair_convert"
    /\ UNCHANGED << hairFrame, hair_top_y, hair_path, bg_color, x1, x2,
                    max_scan_y, fg_threshold, min_fg_pixels, first_subject_y >>

\* Lines 32-35.
HairConvert ==
    /\ pc = "hair_convert"
    /\ IF fault = "convert" THEN HairRaise
       ELSE IF img.h < MIN_DIM \/ img.w < MIN_DIM
            THEN HairReturn(fallback_hair_top, "small")
            ELSE pc' = "hair_border" /\ UNCHANGED << hair_top_y, hair_path >>
    /\ UNCHANGED << hairFrame, hairLocals >>

\* Lines 37-46.
HairBorder ==
    /\ pc = "hair_border"
    /\ IF fault = "border" THEN HairRaise /\ UNCHANGED bg_color
       ELSE /\ bg_color' = BorderMedian(img)
            /\ pc' = "hair_band"
            /\ UNCHANGED << hair_top_y, hair_path >>
    /\ UNCHANGED << hairFrame, fallback_hair_top, x1, x2, max_scan_y,
                    fg_threshold, min_fg_pixels, first_subject_y >>

\* band_half_w = max(30, int(face_core_h * 0.45)), in whole pixels.
BandHalfW(fch) == Max(BAND_MIN_HALF_W, Trunc(fch * BAND_RATIO, 100 * Q))

\* Lines 48-52.
HairBand ==
    /\ pc = "hair_band"
    /\ IF fault = "band" THEN HairRaise /\ UNCHANGED << x1, x2 >>
       ELSE LET half == BandHalfW(face_core_h)
                l == Max(0, Trunc(eye_center_x - Q * half, Q))
                r == Min(img.w, Trunc(eye_center_x + Q * half, Q))
            IN /\ x1' = l
               /\ x2' = r
               /\ IF r - l < MIN_BAND_W
                  THEN HairReturn(fallback_hair_top, "band")
                  ELSE pc' = "hair_limit" /\ UNCHANGED << hair_top_y, hair_path >>
    /\ UNCHANGED << hairFrame, fallback_hair_top, bg_color, max_scan_y,
                    fg_threshold, min_fg_pixels, first_subject_y >>

\* Lines 54-56.
HairScanLimit ==
    /\ pc = "hair_limit"
    /\ IF fault = "limit" THEN HairRaise /\ UNCHANGED max_scan_y
       ELSE LET m == Min(img.h, Max(1, LandmarkY(CHIN)))
            IN /\ max_scan_y' = m
               /\ IF m < MIN_SCAN_Y
                  THEN HairReturn(fallback_hair_top, "limit")
                  ELSE pc' = "hair_threshold" /\ UNCHANGED << hair_top_y, hair_path >>
    /\ UNCHANGED << hairFrame, fallback_hair_top, bg_color, x1, x2,
                    fg_threshold, min_fg_pixels, first_subject_y >>

\* A variant of FgThreshold with the margin subtracted and no floor.
FgThresholdNoFloor(floor) == floor - Q * FLOOR_MARGIN

\* fg_threshold = max(18.0, dynamic_floor + 6.0)
FgThreshold(floor) == Max(Q * FG_FLOOR, floor + Q * FLOOR_MARGIN)

\* Lines 58-60.
HairThreshold ==
    /\ pc = "hair_threshold"
    /\ IF fault = "threshold"
       THEN HairRaise /\ UNCHANGED << fg_threshold, min_fg_pixels >>
       ELSE /\ fg_threshold' = FgThreshold(DynamicFloor(img, bg_color))
            /\ min_fg_pixels' = Max(MIN_FG, Trunc((x2 - x1) * FG_RATIO, 100))
            /\ pc' = "hair_scan"
            /\ UNCHANGED << hair_top_y, hair_path >>
    /\ UNCHANGED << hairFrame, fallback_hair_top, bg_color, x1, x2,
                    max_scan_y, first_subject_y >>

\* Lines 62-75.
HairScan ==
    /\ pc = "hair_scan"
    /\ IF fault = "scan" THEN HairRaise /\ UNCHANGED first_subject_y
       ELSE LET f == ScanRows(img, bg_color, fg_threshold, x1, x2,
                              min_fg_pixels, max_scan_y, 0, 0)
            IN /\ first_subject_y' = f
               /\ IF f = None
                  THEN HairReturn(fallback_hair_top, "no_run")
                  ELSE pc' = "hair_clamp" /\ UNCHANGED << hair_top_y, hair_path >>
    /\ UNCHANGED << hairFrame, fallback_hair_top, bg_color, x1, x2,
                    max_scan_y, fg_threshold, min_fg_pixels >>

\* A variant of ClampedCandidate that returns the larger of the fallback and
\* the clamped candidate.
ClampedCandidateMax(first_y, fch, fallback) ==
    LET safety == Max(MIN_SAFETY, Trunc(fch * SAFETY_RATIO, 100 * Q))
        candidate == Q * (first_y - safety)
        max_lift == (fch * MAX_LIFT_RATIO) \div 100
        min_candidate == fallback - max_lift
    IN Max(fallback, Max(candidate, min_candidate))

\* A variant of ClampedCandidate without the limit on the lift.
ClampedCandidateNoLimit(first_y, fch, fallback) ==
    LET safety == Max(MIN_SAFETY, Trunc(fch * SAFETY_RATIO, 100 * Q))
        candidate == Q * (first_y - safety)
    IN Min(fallback, candidate)

\* Lines 77-86: the value returned after a successful scan.
ClampedCandidate(first_y, fch, fallback) ==
    LET safety == Max(MIN_SAFETY, Trunc(fch * SAFETY_RATIO, 100 * Q))
        candidate == Q * (first_y - safety)
        max_lift == (fch * MAX_LIFT_RATIO) \div 100
        min_candidate == fallback - max_lift
    IN Min(fallback, Max(candidate, min_candidate))

HairClamp ==
    /\ pc = "hair_clamp"
    /\ IF fault = "clamp" THEN HairRaise
       ELSE HairReturn(ClampedCandidate(first_subject_y[1], face_core_h,
                                        fallback_hair_top), "scan")
    /\ UNCHANGED << hairFrame, hairLocals >>

\* A variant of HairCaught: a handler for the errors of the conversion only.
HairCaughtNarrow(f) == f = "convert"

\* The exceptions the handler of line 87 catches: all of them (Exception).
HairCaught(f) == f \in HairFaults

\* Lines 87-89: the handler returns the fallback; an exception it does not
\* catch leaves estimate_hair_top_y and arrives at the handler of its caller.
HairExcept ==
    /\ pc = "hair_except"
    /\ IF HairCaught(fault)
       THEN HairReturn(fallback_hair_top, "except")
       ELSE pc' = "except" /\ hair_path' = "raised" /\ UNCHANGED hair_top_y
    /\ UNCHANGED << hairFrame, hairLocals >>

---------------------------------------------------------------------------
(* smart_crop_passport, lines 119-153 *)

\* A variant of CropW with a floor division of the two targets.
CropWFloorDiv(tw, th, ch) == [num |-> (tw \div th) * ch, den |-> 1]

\* crop_w = (target_w_mm / target_h_mm) * crop_h, as the rational num / den
\* with the ratio of the targets in lowest terms (th > 0).
CropW(tw, th, ch) ==
    [num |-> (tw \div GCD(tw, th)) * ch, den |-> th \div GCD(tw, th)]

\* crop_h = full_head_h / face_ratio.
CropH(full) == (full * 100) \div FACE_RATIO

\* headroom_ratio = (1.0 - face_ratio) / 2.0, in hundredths.
HeadroomRatio == (100 - FACE_RATIO) \div 2

\* frame_top = hair_top_y - crop_h * headroom_ratio.
FrameTop(hair, ch) == hair - (ch * HeadroomRatio) \div 100

\* Lines 119-131.  target_h_mm = 0 raises ZeroDivisionError at line 125.
Geometry ==
    /\ pc = "geometry"
    /\ LET full == Abs(Q * LandmarkY(CHIN) - hair_top_y)
           ch == CropH(full)
       IN /\ full_head_h' = full
          /\ crop_h' = ch
          /\ IF target_h_mm = 0
             THEN /\ pc' = "except"
                  /\ UNCHANGED << crop_w, frame_top, frame_bottom,
                                  frame_left, frame_right >>
             ELSE LET cw == CropW(target_w_mm, target_h_mm, ch)
                      top == FrameTop(hair_top_y, ch)
                  IN /\ crop_w' = cw
                     /\ frame_top' = top
                     /\ frame_bottom' = top + ch
                     /\ frame_left' = [num |-> 2 * cw.den * eye_center_x - cw.num,
                                       den |-> 2 * cw.den]
                     /\ frame_right' = [num |-> 2 * cw.den * eye_center_x + cw.num,
                                        den |-> 2 * cw.den]
                     /\ pc' = "pad"
    /\ UNCHANGED << inputVars, hairLocals, hair_path, excepted, eye_center_x,
                    face_core_h, hair_top_y, pad, box, result >>

\* pad = int(max(w, h) * 0.6)
Pad(im) == Trunc(Max(im.w, im.h) * PAD_RATIO, 100)

\* int(edge + pad) for an edge in 1/Q pixel, and for a rational edge.
BoxEdge(edge, p) == Trunc(edge + Q * p, Q)
BoxEdgeRat(edge, p) == Trunc(edge.num + Q * p * edge.den, Q * edge.den)

\* Lines 134-144: the white canvas, the integer box, the crop.
PadCrop ==
    /\ pc = "pad"
    /\ IF fault = "canvas"
       THEN pc' = "except" /\ UNCHANGED << pad, box >>
       ELSE /\ pad' = Pad(img)
            /\ box' = << BoxEdgeRat(frame_left, Pad(img)), BoxEdge(frame_top, Pad(img)),
                         BoxEdgeRat(frame_right, Pad(img)), BoxEdge(frame_bottom, Pad(img)) >>
            /\ pc' = "resize"
    /\ UNCHANGED << inputVars, hairLocals, geomLocals, hair_path, excepted,
                    eye_center_x, face_core_h, hair_top_y, result >>

\* Image.resize raises ValueError ("height and width must be > 0") for a
\* target size with a dimension below 1.
ResizeRaises(w, h) == w < 1 \/ h < 1

Returned(w, h, src) == [kind |-> "image", w |-> w, h |-> h, src |-> src]

\* The size of the region canvas.crop(box) returns.
CroppedSize == << box[3] - box[1], box[4] - box[2] >>

\* Lines 147-149.  Resampling a region without pixels (an empty box) either
\* raises or yields an image of the target size, depending on the PIL build.
Resize ==
    /\ pc = "resize"
    /\ LET final_w == mm_to_px(target_w_mm)
           final_h == mm_to_px(target_h_mm)
       IN \/ /\ ResizeRaises(final_w, final_h)
             /\ pc' = "except"
             /\ UNCHANGED result
          \/ /\ ~ResizeRaises(final_w, final_h)
             /\ CroppedSize[1] < 1 \/ CroppedSize[2] < 1
             /\ pc' = "except"
             /\ UNCHANGED result
          \/ /\ ~ResizeRaises(final_w, final_h)
             /\ result' = Returned(final_w, final_h, "crop")
             /\ pc' = "returned"
    /\ UNCHANGED << inputVars, hairLocals, geomLocals, hair_path, excepted,
                    eye_center_x, face_core_h, hair_top_y, pad, box >>

\* Lines 151-153: the handler resizes the original image; nothing guards
\* this second resize.
Except ==
    /\ pc = "except"
    /\ excepted' = TRUE
    /\ LET final_w == mm_to_px(target_w_mm)
           final_h == mm_to_px(target_h_mm)
       IN IF ResizeRaises(final_w, final_h)
          THEN /\ result' = [kind |-> "exception", w |-> 0, h |-> 0, src |-> "none"]
               /\ pc' = "raised"
          ELSE /\ result' = Returned(final_w, final_h, "orig")
               /\ pc' = "returned"
    /\ UNCHANGED << inputVars, hairLocals, geomLocals, hair_path,
                    eye_center_x, face_core_h, hair_top_y, pad, box >>

NextCrop ==
    \/ CropLandmarks
    \/ HairEntry
    \/ HairConvert
    \/ HairBorder
    \/ HairBand
    \/ HairScanLimit
    \/ HairThreshold
    \/ HairScan
    \/ HairClamp
    \/ HairExcept
    \/ Geometry
    \/ PadCrop
    \/ Resize
    \/ Except

SpecCrop == InitCrop /\ [][NextCrop]_vars

---------------------------------------------------------------------------
(* Two calls on the same image and landmarks, the second with twice the     *)
(* target width.                                                            *)

SecondCall ==
    /\ pc \in {"returned", "raised"}
    /\ first_call = None
    /\ first_call' = << [crop_h |-> crop_h, crop_w |-> crop_w] >>
    /\ target_w_mm' = 2 * target_w_mm
    /\ pc' = "start"
    /\ hair_path' = "none"
    /\ excepted' = FALSE
    /\ eye_center_x' = 0 /\ face_core_h' = 0 /\ hair_top_y' = 0
    /\ full_head_h' = 0 /\ crop_h' = 0 /\ crop_w' = None
    /\ frame_top' = 0 /\ frame_bottom' = 0
    /\ frame_left' = None /\ frame_right' = None
    /\ pad' = 0 /\ box' = None
    /\ result' = NoResult
    /\ fallback_hair_top' = 0 /\ bg_color' = 0
    /\ x1' = 0 /\ x2' = 0 /\ max_scan_y' = 0
    /\ fg_threshold' = 0 /\ min_fg_pixels' = 0
    /\ first_subject_y' = None
    /\ UNCHANGED << img, face_landmarks, target_h_mm, fault, matteVars,
                    uploadVars, overlayVars >>

NextAspect == NextCrop \/ SecondCall

SpecAspect == InitCrop /\ [][NextAspect]_vars

---------------------------------------------------------------------------
(* Properties of the crop planner and of the hair-top estimator *)

\* Lines 119-131 ran to the end: the frame is computed.
GeometryDone == crop_w # None

\* estimate_hair_top_y returned a value to line 112.
HairReturned == hair_path \notin {"none", "raised"}

\* 100 times the fallback top_head_y - 0.32 * face_core_h, from the landmarks.
Fallback100 == 100 * Q * LandmarkY(TOP_HEAD) - DEFAULT_HAIR_BUFFER * face_core_h

\* Every pixel of the image has the level of pixel (0, 0).
IsUniform(im) ==
    \A y \in 0 .. im.h - 1 : RowCountIn(im, y, 0, im.w, {Pix(im, 0, 0)}) = im.w

\* C1 (as claimed): once the frame is computed, the hairline-to-chin span is
\* half of crop_h, frame_top = hair_top_y - crop_h / 4 and
\* frame_bottom = chin_y + crop_h / 4, and the box edges are these values
\* plus pad, cut to integers.
C1_FramingRatio ==
    GeometryDone =>
        /\ 2 * (Q * LandmarkY(CHIN) - hair_top_y) = crop_h
        /\ 4 * frame_top = 4 * hair_top_y - crop_h
        /\ 4 * frame_bottom = 4 * Q * LandmarkY(CHIN) + crop_h
        /\ box # None =>
              /\ box[2] = Trunc(frame_top + Q * pad, Q)
              /\ box[4] = Trunc(frame_bottom + Q * pad, Q)

\* C2 (as claimed): every returned image is round(mm * 300 / 25.4) pixels
\* wide and high.
C2_OutputSizeRounded ==
    pc = "returned" =>
        /\ result.w = RoundDiv(target_w_mm * 300, 254)
        /\ result.h = RoundDiv(target_h_mm * 300, 254)

\* C2 (amended): every returned image, from the normal path or from the
\* exception handler, is int(mm * 300 / 25.4) pixels wide and high: the
\* conversion truncates.
C2_OutputSizeTruncated ==
    pc = "returned" =>
        /\ result.kind = "image"
        /\ result.w = Trunc(target_w_mm * 300, 254)
        /\ result.h = Trunc(target_h_mm * 300, 254)

\* C2 witness: a cropped image is returned for a width of 33 mm, where
\* rounding and truncation differ.
C2_Witness ==
    /\ pc = "returned"
    /\ result.src = "crop"
    /\ RoundDiv(target_w_mm * 300, 254) # Trunc(target_w_mm * 300, 254)

\* C3: on every return path, the value estimate_hair_top_y returns is at most
\* the fallback top_head_y - 0.32 * face_core_h.
C3_HairTopMonotone ==
    HairReturned => 100 * hair_top_y <= Fallback100

\* C3 witness: the pixel scan returned a hair top above the fallback.
C3_Witness ==
    /\ hair_path = "scan"
    /\ 100 * hair_top_y < Fallback100

\* C6: for an image below 20 pixels in a dimension, or of one colour, the
\* estimator does not raise and returns exactly the fallback.
C6_DegenerateFallback ==
    (img.w < 20 \/ img.h < 20 \/ IsUniform(img)) =>
        /\ hair_path # "raised"
        /\ HairReturned => 100 * hair_top_y = Fallback100

\* C6 witness: a one-colour image large enough to be scanned went through
\* the row scan and the fallback came back.
C6_Witness ==
    /\ IsUniform(img) /\ img.w >= 20 /\ img.h >= 20
    /\ hair_path = "no_run"
    /\ pc = "geometry"

\* C7 (as claimed): smart_crop_passport never lets an exception out, and
\* when a step raised it returns the original image resized to the target.
C7_CropNeverRaises ==
    /\ pc # "raised"
    /\ (pc = "returned" /\ excepted) =>
           result = Returned(mm_to_px(target_w_mm), mm_to_px(target_h_mm), "orig")

\* C9: an error raised at any step of the pixel analysis is caught: no call
\* of estimate_hair_top_y ends in an exception, and the call returns the
\* fallback.
C9_HairNeverRaises ==
    /\ hair_path # "raised"
    /\ hair_path = "except" => 100 * hair_top_y = Fallback100

\* C9 witness: the row scan raised and the call returned.
C9_Witness ==
    /\ fault = "scan"
    /\ hair_path = "except"
    /\ pc = "geometry"

\* C5: with the image and the landmarks fixed, the second call (twice the
\* target width) computes the same crop_h and twice the crop_w.
C5_AspectLock ==
    (first_call # None /\ GeometryDone /\ first_call[1].crop_w # None) =>
        /\ crop_h = first_call[1].crop_h
        /\ crop_w.num * first_call[1].crop_w.den
               = 2 * first_call[1].crop_w.num * crop_w.den

\* C5 witness: both calls computed a frame of positive width from a scanned
\* hair top.
C5_Witness ==
    /\ first_call # None /\ GeometryDone /\ first_call[1].crop_w # None
    /\ hair_path = "scan"
    /\ crop_w.num > 0

---------------------------------------------------------------------------
(* remove_background (app/image/background.py)                              *)
(*                                                                         *)
(* The image is NPix pixels.  The provider (rembg.remove) and the guided    *)
(* filter (cv2.ximgproc) are libraries: the provider returns any 8-bit      *)
(* alpha per pixel or raises, the guided filter returns any value of its    *)
(* range per pixel.  Alphas are held in millionths after the sigmoid.       *)

\* The bound of the model: the number of pixels.
NPix == 2

Pixels == 1 .. NPix

\* 8-bit alphas the provider returns: none, a faint fog (5/255 < 0.05),
\* an edge, the core (above 0.95).
RawAlphas == {0, 5, 200, 255}

\* Outputs of the guided filter, in thousandths; it overshoots [0, 1].
GuidedValues == {0 - 50, 300, 462, 463, 464, 580, 1050}

\* The refinement stages at which cv2 / numpy may raise.
MatteFaults == {"none", "decontaminate", "guided", "sigmoid", "composite"}

\* smart_crop_passport is not running.
CropIdle ==
    /\ img = Uniform(1, 1)
    /\ face_landmarks = Face(12, 20, 8, 16)
    /\ target_w_mm = DefaultTarget[1] /\ target_h_mm = DefaultTarget[2]
    /\ fault = "none"
    /\ first_call = None
    /\ pc = "idle"
    /\ CropLocalsInit

InitMatte ==
    /\ mpc = "segment"
    /\ mfault \in MatteFaults
    /\ mpath = "none"
    /\ alpha_base = None
    /\ decontaminated = FALSE
    /\ alpha_precise = None
    /\ final_alpha_f = None
    /\ out_alpha = None
    /\ CropIdle
    /\ UploadIdle
    /\ OverlayIdle

\* Lines 30-42: encode the image, call the provider, decode its RGBA result.
\* The provider call raises or returns.
MatteSegment ==
    /\ mpc = "segment"
    /\ \/ /\ mpc' = "m_except"
          /\ UNCHANGED alpha_base
       \/ /\ alpha_base' \in [Pixels -> RawAlphas]
          /\ mpc' = "decontaminate"
    /\ UNCHANGED << cropVars, uploadVars, overlayVars, mfault, mpath, decontaminated,
                    alpha_precise, final_alpha_f, out_alpha >>

\* core_mask = alpha_base > 0.95, for an 8-bit alpha a (alpha_base = a / 255).
IsCore(a) == 100 * a > 95 * 255

\* Lines 45-71: the blended colour is computed when a core pixel exists,
\* otherwise decontam_rgb is the original colour.
MatteDecontaminate ==
    /\ mpc = "decontaminate"
    /\ IF mfault = "decontaminate"
       THEN mpc' = "m_except" /\ UNCHANGED decontaminated
       ELSE /\ decontaminated' = (\E p \in Pixels : IsCore(alpha_base[p]))
            /\ mpc' = "guided"
    /\ UNCHANGED << cropVars, uploadVars, overlayVars, mfault, mpath, alpha_base, alpha_precise,
                    final_alpha_f, out_alpha >>

\* Lines 74-76: the guided filter.
MatteGuided ==
    /\ mpc = "guided"
    /\ IF mfault = "guided"
       THEN mpc' = "m_except" /\ UNCHANGED alpha_precise
       ELSE /\ alpha_precise' \in [Pixels -> GuidedValues]
            /\ mpc' = "sigmoid"
    /\ UNCHANGED << cropVars, uploadVars, overlayVars, mfault, mpath, alpha_base, decontaminated,
                    final_alpha_f, out_alpha >>

\* 1 / (1 + exp(-25 * (a - 0.58))) in millionths (cut), for a in thousandths.
Sigmoid(a) ==
    CASE a = 0 - 50 -> 0
      [] a = 300 -> 911
      [] a = 462 -> 49736
      [] a = 463 -> 50931
      [] a = 464 -> 52153
      [] a = 580 -> 500000
      [] a = 1050 -> 999992

\* Lines 81-83.
MatteSigmoid ==
    /\ mpc = "sigmoid"
    /\ IF mfault = "sigmoid"
       THEN mpc' = "m_except" /\ UNCHANGED final_alpha_f
       ELSE /\ final_alpha_f' = [p \in Pixels |-> Sigmoid(alpha_precise[p])]
            /\ mpc' = "fog"
    /\ UNCHANGED << cropVars, uploadVars, overlayVars, mfault, mpath, alpha_base, decontaminated,
                    alpha_precise, out_alpha >>

\* A variant of FogCut with the threshold at 0.005.
FogCutLow(f) == IF f < 5000 THEN 0 ELSE Min(Max(f, 0), 1000000)

\* Lines 87-88: alpha below 0.05 becomes 0, then clip to [0, 1].
FogCut(f) == IF f < 50000 THEN 0 ELSE Min(Max(f, 0), 1000000)

MatteFog ==
    /\ mpc = "fog"
    /\ final_alpha_f' = [p \in Pixels |-> FogCut(final_alpha_f[p])]
    /\ mpc' = "composite"
    /\ UNCHANGED << cropVars, uploadVars, overlayVars, mfault, mpath, alpha_base, decontaminated,
                    alpha_precise, out_alpha >>

\* (final_alpha_f * 255).astype(np.uint8)
ToUint8(f) == Trunc(f * 255, 1000000)

\* Lines 91-97.
MatteComposite ==
    /\ mpc = "composite"
    /\ IF mfault = "composite"
       THEN mpc' = "m_except" /\ UNCHANGED << out_alpha, mpath >>
       ELSE /\ out_alpha' = [p \in Pixels |-> ToUint8(final_alpha_f[p])]
            /\ mpath' = "refined"
            /\ mpc' = "m_returned"
    /\ UNCHANGED << cropVars, uploadVars, overlayVars, mfault, alpha_base, decontaminated,
                    alpha_precise, final_alpha_f >>

\* Lines 99-105: the handler calls the provider again, with its default
\* matting thresholds, and returns its RGBA result as it is.  Nothing guards
\* this second call.
MatteExcept ==
    /\ mpc = "m_except"
    /\ \/ /\ mpc' = "m_raised"
          /\ UNCHANGED << out_alpha, mpath >>
       \/ /\ out_alpha' \in [Pixels -> RawAlphas]
          /\ mpath' = "fallback"
          /\ mpc' = "m_returned"
    /\ UNCHANGED << cropVars, uploadVars, overlayVars, mfault, alpha_base, decontaminated,
                    alpha_precise, final_alpha_f >>

NextMatte ==
    \/ MatteSegment
    \/ MatteDecontaminate
    \/ MatteGuided
    \/ MatteSigmoid
    \/ MatteFog
    \/ MatteComposite
    \/ MatteExcept

SpecMatte == InitMatte /\ [][NextMatte]_vars

---------------------------------------------------------------------------
(* Properties of the matte engine *)

\* C4 (as claimed): on every path that returns an image, each pixel's alpha
\* is in 0..255 and none is above 0 and below 0.05 (of 255).
C4_AlphaFogFree ==
    mpc = "m_returned" =>
        \A p \in Pixels :
            /\ out_alpha[p] \in 0 .. 255
            /\ ~(out_alpha[p] > 0 /\ 100 * out_alpha[p] < 5 * 255)

\* C4 (amended): on the refinement path, after step 6 every alpha is within
\* [0, 1] and is 0 or at least 0.05, and the returned 8-bit alpha is that
\* value times 255 cut to an integer, so 0 or at least 12; on every path the
\* returned alpha is in 0..255.
C4_RefinedAlphaFogFree ==
    /\ mpc \in {"composite", "m_returned"} /\ mpath # "fallback" =>
          \A p \in Pixels :
              /\ final_alpha_f[p] >= 0 /\ final_alpha_f[p] <= 1000000
              /\ final_alpha_f[p] = 0 \/ final_alpha_f[p] >= 50000
    /\ mpc = "m_returned" /\ mpath = "refined" =>
          \A p \in Pixels :
              /\ out_alpha[p] = (final_alpha_f[p] * 255) \div 1000000
              /\ out_alpha[p] = 0 \/ out_alpha[p] >= 12
    /\ mpc = "m_returned" => \A p \in Pixels : out_alpha[p] \in 0 .. 255

\* C4 witness: the refinement path returned a pixel whose sigmoid value was
\* cut to 0 and a pixel whose 8-bit alpha is 12.
C4_Witness ==
    /\ mpc = "m_returned" /\ mpath = "refined"
    /\ \E p \in Pixels : alpha_precise[p] = 462 /\ out_alpha[p] = 0
    /\ \E p \in Pixels : out_alpha[p] = 12

\* C8 (as claimed): remove_background never lets an exception out, and when
\* a stage raised it returns the provider's raw result.
C8_MatteNeverRaises ==
    /\ mpc # "m_raised"
    /\ (mpc = "m_returned" /\ mpath = "fallback") =>
           \A p \in Pixels : out_alpha[p] \in RawAlphas

---------------------------------------------------------------------------
(* upload_photo (app/api/v1/photos.py)                                      *)
(*                                                                         *)
(* One request.  The calls it makes (file system, detectors, the crop       *)
(* planner, the matte engine, the DB session) return or raise; SpecCrop     *)
(* and SpecMatte show that smart_crop_passport and remove_background do     *)
(* both.  Paths are named by their extension.                               *)

InitUpload ==
    /\ upc = "validate"
    /\ content_is_image \in BOOLEAN
    /\ transparent_png \in BOOLEAN
    /\ draw_debug_overlays \in BOOLEAN
    /\ UploadLocalsInit
    /\ CropIdle
    /\ MatteIdle
    /\ OverlayIdle

HttpError(code, reason) ==
    [kind |-> "http_error", code |-> code, status |-> "", reason |-> reason,
     processed_url |-> ""]

\* Lines 42-43.
UValidate ==
    /\ upc = "validate"
    /\ IF content_is_image
       THEN upc' = "save_original" /\ UNCHANGED response
       ELSE /\ response' = HttpError(400, "File must be an image")
            /\ upc' = "done"
    /\ UNCHANGED << cropVars, matteVars, overlayVars, content_is_image, transparent_png,
                    draw_debug_overlays, detected, status, compliance_result,
                    final_img, save_format, processed_path, original_saved,
                    processed_file, session_new, photos, steps >>

\* Lines 46-56.
USaveOriginal ==
    /\ upc = "save_original"
    /\ \/ /\ original_saved' = TRUE
          /\ upc' = "open"
          /\ UNCHANGED response
       \/ /\ response' = HttpError(500, "Could not save file")
          /\ upc' = "done"
          /\ UNCHANGED original_saved
    /\ UNCHANGED << cropVars, matteVars, overlayVars, content_is_image, transparent_png,
                    draw_debug_overlays, detected, status, compliance_result,
                    final_img, save_format, processed_path, processed_file,
                    session_new, photos, steps >>

\* Lines 61-62: Image.open and convert.
UOpen ==
    /\ upc = "open"
    /\ upc' \in {"detect", "u_except"}
    /\ UNCHANGED << cropVars, matteVars, overlayVars, content_is_image, transparent_png,
                    draw_debug_overlays, detected, status, compliance_result,
                    final_img, save_format, processed_path, original_saved,
                    processed_file, session_new, photos, response, steps >>

\* Lines 65-66: each detector returns a result or None, or raises.
UDetect ==
    /\ upc = "detect"
    /\ \/ /\ detected' \in [bbox : BOOLEAN, landmarks : BOOLEAN]
          /\ steps' = Append(steps, "detect")
          /\ upc' = "branch"
       \/ /\ upc' = "u_except"
          /\ UNCHANGED << detected, steps >>
    /\ UNCHANGED << cropVars, matteVars, overlayVars, content_is_image, transparent_png,
                    draw_debug_overlays, status, compliance_result,
                    final_img, save_format, processed_path, original_saved,
                    processed_file, session_new, photos, response >>

\* A variant of FaceFound that is content with one of the two results.
FaceFoundEither == detected.bbox \/ detected.landmarks

\* Line 68: the test is "not face_bbox or not face_landmarks".
FaceFound == detected.bbox /\ detected.landmarks

\* Lines 68-71.
UNoFace ==
    /\ upc = "branch"
    /\ ~FaceFound
    /\ status' = "failed"
    /\ compliance_result' = "No face or landmarks detected"
    /\ upc' = "persist"
    /\ UNCHANGED << cropVars, matteVars, overlayVars, content_is_image, transparent_png,
                    draw_debug_overlays, detected, final_img, save_format,
                    processed_path, original_saved, processed_file,
                    session_new, photos, response, steps >>

\* Lines 75-80: smart_crop_passport returns an image or raises.
UCrop ==
    /\ upc = "branch"
    /\ FaceFound
    /\ \/ /\ final_img' = "RGB"
          /\ steps' = Append(steps, "crop")
          /\ upc' = "matte"
       \/ /\ upc' = "u_except"
          /\ UNCHANGED << final_img, steps >>
    /\ UNCHANGED << cropVars, matteVars, overlayVars, content_is_image, transparent_png,
                    draw_debug_overlays, detected, status, compliance_result,
                    save_format, processed_path, original_saved,
                    processed_file, session_new, photos, response >>

\* Line 84: remove_background returns an RGBA image or raises.
UMatte ==
    /\ upc = "matte"
    /\ \/ /\ final_img' = "RGBA"
          /\ steps' = Append(steps, "matte")
          /\ upc' = "compose"
       \/ /\ upc' = "u_except"
          /\ UNCHANGED << final_img, steps >>
    /\ UNCHANGED << cropVars, matteVars, overlayVars, content_is_image, transparent_png,
                    draw_debug_overlays, detected, status, compliance_result,
                    save_format, processed_path, original_saved,
                    processed_file, session_new, photos, response >>

\* Lines 87-100.  apply_background_color catches what its paste raises and
\* returns an RGB image either way; the convert of line 97 may raise.
UCompose ==
    /\ upc = "compose"
    /\ \/ /\ IF transparent_png
             THEN /\ save_format' = "PNG"
                  /\ final_img' = final_img
             ELSE /\ save_format' = "JPEG"
                  /\ final_img' = "RGB"
          /\ processed_path' = (IF transparent_png THEN "png" ELSE "jpg")
          /\ steps' = Append(steps, "compose")
          /\ upc' = "redetect"
       \/ /\ ~transparent_png
          /\ upc' = "u_except"
          /\ UNCHANGED << final_img, save_format, processed_path, steps >>
    /\ UNCHANGED << cropVars, matteVars, overlayVars, content_is_image, transparent_png,
                    draw_debug_overlays, detected, status, compliance_result,
                    original_saved, processed_file, session_new, photos,
                    response >>

\* Lines 104-125: landmarks are detected again on a padded copy; the
\* detector returns landmarks or None, or raises.  draw_overlays runs when
\* landmarks were found and draw_debug_overlays is set: it converts the
\* image to RGB (overlays.py line 57) and returns it, or, when it raised
\* before that line, returns the image as it was.
URedetect ==
    /\ upc = "redetect"
    /\ \/ \E final_landmarks \in BOOLEAN, converted \in BOOLEAN :
             /\ final_img' = IF final_landmarks /\ draw_debug_overlays /\ converted
                             THEN "RGB"
                             ELSE final_img
             /\ steps' = Append(steps, "redetect")
             /\ upc' = "save"
       \/ /\ upc' = "u_except"
          /\ UNCHANGED << final_img, steps >>
    /\ UNCHANGED << cropVars, matteVars, overlayVars, content_is_image, transparent_png,
                    draw_debug_overlays, detected, status, compliance_result,
                    save_format, processed_path, original_saved,
                    processed_file, session_new, photos, response >>

\* Lines 127-134: the file is written, then the status is set.
USave ==
    /\ upc = "save"
    /\ \/ /\ processed_file' = [format |-> save_format, mode |-> final_img]
          /\ status' = "ready"
          /\ compliance_result' = "face_found"
          /\ steps' = Append(steps, "save")
          /\ upc' = "persist"
       \/ /\ upc' = "u_except"
          /\ UNCHANGED << processed_file, status, compliance_result, steps >>
    /\ UNCHANGED << cropVars, matteVars, overlayVars, content_is_image, transparent_png,
                    draw_debug_overlays, detected, final_img, save_format,
                    processed_path, original_saved, session_new, photos,
                    response >>

\* A variant of ProcessedPathOf that stores no path.
ProcessedPathNever(st, path) == ""

\* Line 144.
ProcessedPathOf(st, path) == IF st = "ready" THEN path ELSE ""

\* Line 147.
ComplianceScore(st) == IF st = "ready" THEN 100 ELSE 0

\* A variant of Photo whose status is always 'ready'.
PhotoAlwaysReady ==
    [status |-> "ready",
     processed_path |-> ProcessedPathOf(status, processed_path),
     compliance_result |-> compliance_result,
     compliance_score |-> ComplianceScore(status)]

\* Lines 137-149.
Photo ==
    [status |-> status,
     processed_path |-> ProcessedPathOf(status, processed_path),
     compliance_result |-> compliance_result,
     compliance_score |-> ComplianceScore(status)]

\* Lines 137-151: build the record and add it to the session.
UPersist ==
    /\ upc = "persist"
    /\ session_new' = {Photo}
    /\ upc' = "commit"
    /\ UNCHANGED << cropVars, matteVars, overlayVars, content_is_image, transparent_png,
                    draw_debug_overlays, detected, status, compliance_result,
                    final_img, save_format, processed_path, original_saved,
                    processed_file, photos, response, steps >>

\* Line 152.
UCommit ==
    /\ upc = "commit"
    /\ \/ /\ photos' = photos \cup session_new
          /\ session_new' = {}
          /\ steps' = Append(steps, "persist")
          /\ upc' = "refresh"
       \/ /\ upc' = "u_except"
          /\ UNCHANGED << photos, session_new, steps >>
    /\ UNCHANGED << cropVars, matteVars, overlayVars, content_is_image, transparent_png,
                    draw_debug_overlays, detected, status, compliance_result,
                    final_img, save_format, processed_path, original_saved,
                    processed_file, response >>

\* Line 153.
URefresh ==
    /\ upc = "refresh"
    /\ upc' \in {"respond", "u_except"}
    /\ UNCHANGED << cropVars, matteVars, overlayVars, content_is_image, transparent_png,
                    draw_debug_overlays, detected, status, compliance_result,
                    final_img, save_format, processed_path, original_saved,
                    processed_file, session_new, photos, response, steps >>

\* Line 159.
ProcessedUrl(new_photo) == new_photo.processed_path

\* Lines 155-160.
URespond ==
    /\ upc = "respond"
    /\ \E new_photo \in photos :
          response' = [kind |-> "json", code |-> 200,
                       status |-> new_photo.status,
                       reason |-> IF new_photo.status = "failed"
                                  THEN new_photo.compliance_result
                                  ELSE "",
                       processed_url |-> ProcessedUrl(new_photo)]
    /\ upc' = "done"
    /\ UNCHANGED << cropVars, matteVars, overlayVars, content_is_image, transparent_png,
                    draw_debug_overlays, detected, status, compliance_result,
                    final_img, save_format, processed_path, original_saved,
                    processed_file, session_new, photos, steps >>

\* Lines 162-165: roll the session back and answer 500.
UExcept ==
    /\ upc = "u_except"
    /\ session_new' = {}
    /\ response' = HttpError(500, "Processing Pipeline Error")
    /\ upc' = "done"
    /\ UNCHANGED << cropVars, matteVars, overlayVars, content_is_image, transparent_png,
                    draw_debug_overlays, detected, status, compliance_result,
                    final_img, save_format, processed_path, original_saved,
                    processed_file, photos, steps >>

NextUpload ==
    \/ UValidate
    \/ USaveOriginal
    \/ UOpen
    \/ UDetect
    \/ UNoFace
    \/ UCrop
    \/ UMatte
    \/ UCompose
    \/ URedetect
    \/ USave
    \/ UPersist
    \/ UCommit
    \/ URefresh
    \/ URespond
    \/ UExcept

SpecUpload == InitUpload /\ [][NextUpload]_vars

---------------------------------------------------------------------------
(* Properties of the upload pipeline *)

\* C10: every attempt on a file with an image content type ends, and ends in
\* exactly one of: status 'ready' with the URL of a processed file that was
\* written; or an explicit failure with a reason (status 'failed' with the
\* diagnostic, or an HTTP error with a detail).  Before the end the caller
\* has received nothing and a next step exists.
C10_ReadyOrExplicitFailure ==
    /\ (upc = "done" /\ content_is_image) =>
          \/ /\ response.kind = "json"
             /\ response.status = "ready"
             /\ response.processed_url # ""
             /\ response.processed_url = processed_path
             /\ processed_file # NoFile
          \/ /\ response.kind = "json"
             /\ response.status = "failed"
             /\ response.reason # ""
             /\ response.processed_url = ""
          \/ /\ response.kind = "http_error"
             /\ response.reason # ""
             /\ response.processed_url = ""
    /\ upc # "done" => response = NoResponse /\ ENABLED NextUpload

\* C10 witness: the processed file was written, the commit failed, and the
\* caller received the pipeline error.
C10_Witness ==
    /\ upc = "done"
    /\ content_is_image
    /\ processed_file # NoFile
    /\ photos = {}
    /\ response.kind = "http_error"
    /\ response.reason = "Processing Pipeline Error"

\* C11: when the detectors have returned and one of them returned nothing,
\* the crop planner, the matte engine and a second detection never run, no
\* processed file is written, and every record handed to the session or
\* committed has status 'failed', the diagnostic and no processed path;
\* the handler goes from the branch straight to persisting that record, and
\* a normal return reports it.
C11_NoFaceFails ==
    (Len(steps) >= 1 /\ ~(detected.bbox /\ detected.landmarks)) =>
        /\ steps \in {<< "detect" >>, << "detect", "persist" >>}
        /\ upc \in {"branch", "persist", "commit", "refresh", "respond",
                    "u_except", "done"}
        /\ processed_file = NoFile
        /\ \A r \in session_new \cup photos :
              /\ r.status = "failed"
              /\ r.compliance_result = "No face or landmarks detected"
              /\ r.processed_path = ""
        /\ upc = "commit" => session_new # {}
        /\ upc \in {"refresh", "respond"} => photos # {}
        /\ (upc = "done" /\ response.kind = "json") =>
              /\ photos # {}
              /\ response.status = "failed"
              /\ response.reason = "No face or landmarks detected"
              /\ response.processed_url = ""

\* C11 witness: the face detector found a box, the landmark provider found
\* nothing, and the run ended with the failed record committed and reported.
C11_Witness ==
    /\ upc = "done"
    /\ detected.bbox /\ ~detected.landmarks
    /\ steps = << "detect", "persist" >>
    /\ photos # {}
    /\ response.status = "failed"

\* The steps of a run that finds a face, in the order of the handler's text.
StepOrder ==
    << "detect", "crop", "matte", "compose", "redetect", "save", "persist" >>

IsPrefix(a, b) ==
    /\ Len(a) <= Len(b)
    /\ \A i \in 1 .. Len(a) : a[i] = b[i]

---------------------------------------------------------------------------
(* Further properties of the crop planner *)

\* The four required landmarks lie inside the image.
LandmarksInside ==
    \A i \in Required :
        /\ face_landmarks[i] # None
        /\ LandmarkX(i) >= 0 /\ LandmarkX(i) < img.w
        /\ LandmarkY(i) >= 0 /\ LandmarkY(i) < img.h

\* C13 (as claimed): when the required landmarks lie inside the image, the
\* integer crop box lies inside the canvas of (w + 2 pad) x (h + 2 pad).
C13_CanvasContainsCrop ==
    (box # None /\ LandmarksInside) =>
        /\ box[1] >= 0 /\ box[2] >= 0
        /\ box[3] <= img.w + 2 * pad
        /\ box[4] <= img.h + 2 * pad

\* C14: whatever the scan finds, the value estimate_hair_top_y returns is
\* at least fallback - 0.45 * face_core_h, that is
\* top_head_y - 0.32 * face_core_h - 0.45 * face_core_h.
C14_LiftClamp ==
    HairReturned =>
        100 * hair_top_y >= Fallback100 - MAX_LIFT_RATIO * face_core_h

\* C14 witness: the subject run starts at row 0, the candidate lies above
\* the limit, and the value returned is the limit itself.
C14_Witness ==
    /\ hair_path = "scan"
    /\ first_subject_y = << 0 >>
    /\ face_core_h > 0
    /\ 100 * hair_top_y = Fallback100 - MAX_LIFT_RATIO * face_core_h

\* Row y is scanned and its foreground count in the band reaches
\* min_fg_pixels.
Qualifies(y) ==
    /\ y >= 0 /\ y < max_scan_y
    /\ FgCount(img, bg_color, fg_threshold, x1, x2, y) >= min_fg_pixels

\* Rows y, y + 1, y + 2 are scanned and qualify.
RunAt(y) == Qualifies(y) /\ Qualifies(y + 1) /\ Qualifies(y + 2)

\* C15: the row the scan accepts is the first row of the earliest three
\* consecutive qualifying rows among rows 0 .. max_scan_y - 1; when there
\* are no three such rows, also when the last one or two scanned rows
\* qualify, the scan accepts none and the fallback is returned.
C15_RowScan ==
    /\ (pc \in {"hair_clamp", "geometry", "pad", "resize", "returned"}
        /\ first_subject_y # None) =>
          /\ RunAt(first_subject_y[1])
          /\ \A y \in 0 .. first_subject_y[1] - 1 : ~RunAt(y)
    /\ hair_path = "no_run" =>
          /\ \A y \in 0 .. max_scan_y - 1 : ~RunAt(y)
          /\ first_subject_y = None
          /\ 100 * hair_top_y = Fallback100

\* C15 witness: two qualifying rows, a row that resets the count, and then
\* the run that is accepted.
C15_Witness ==
    /\ pc = "hair_clamp"
    /\ first_subject_y # None
    /\ \E y \in 0 .. first_subject_y[1] - 2 :
          Qualifies(y) /\ Qualifies(y + 1) /\ ~Qualifies(y + 2)

---------------------------------------------------------------------------
(* Further properties of the upload pipeline *)

\* C16 (as claimed): with transparent_png set, a job that is 'ready' has
\* its processed file saved as PNG in mode RGBA.
C16_TransparentKeepsAlpha ==
    (transparent_png /\ status = "ready") =>
        /\ processed_file.format = "PNG"
        /\ processed_file.mode = "RGBA"

---------------------------------------------------------------------------
(* draw_overlays (app/image/overlays.py), lines 60-70 and 124: the          *)
(* hairline it marks, next to the fallback hair top of smart_crop_passport  *)
(* for the same landmarks.                                                  *)

\* HAIR_BUFFER of draw_overlays, in hundredths.
HAIR_BUFFER == 25

InitOverlay ==
    /\ img = Uniform(ImgW, ImgH)
    /\ face_landmarks \in LandmarkSets
    /\ \E t \in Targets : target_w_mm = t[1] /\ target_h_mm = t[2]
    /\ fault = "none"
    /\ first_call = None
    /\ pc = "start"
    /\ CropLocalsInit
    /\ MatteIdle
    /\ UploadIdle
    /\ opc = "o_start"
    /\ ov_face_core_h = 0
    /\ ov_hair_top_y = 0
    /\ ov_face_display_h = 0

\* Lines 61-66.  Subscripting a landmark that is None raises inside the try
\* block, whose handler (lines 156-158) returns the image.
OverlayLandmarks ==
    /\ opc = "o_start"
    /\ IF face_landmarks[TOP_HEAD] = None \/ face_landmarks[CHIN] = None
       THEN /\ opc' = "o_returned"
            /\ UNCHANGED ov_face_core_h
       ELSE /\ ov_face_core_h' = Q * Abs(LandmarkY(CHIN) - LandmarkY(TOP_HEAD))
            /\ opc' = "o_hairline"
    /\ UNCHANGED << cropVars, matteVars, uploadVars, ov_hair_top_y,
                    ov_face_display_h >>

\* hair_top_y = top_head["y"] - (face_core_h * HAIR_BUFFER)
OverlayHairTop(top_y, fch) == Q * top_y - (fch * HAIR_BUFFER) \div 100

\* Lines 69-70.
OverlayHairline ==
    /\ opc = "o_hairline"
    /\ ov_hair_top_y' = OverlayHairTop(LandmarkY(TOP_HEAD), ov_face_core_h)
    /\ opc' = "o_marker"
    /\ UNCHANGED << cropVars, matteVars, uploadVars, ov_face_core_h,
                    ov_face_display_h >>

\* Lines 124-154: the span of the face marker, then the drawing.
OverlayMarker ==
    /\ opc = "o_marker"
    /\ ov_face_display_h' = Q * LandmarkY(CHIN) - ov_hair_top_y
    /\ opc' = "o_returned"
    /\ UNCHANGED << cropVars, matteVars, uploadVars, ov_face_core_h,
                    ov_hair_top_y >>

\* Both components on the same landmarks: smart_crop_passport up to the
\* fallback hair top of line 29, and draw_overlays.
NextOverlay ==
    \/ CropLandmarks
    \/ HairEntry
    \/ OverlayLandmarks
    \/ OverlayHairline
    \/ OverlayMarker

SpecOverlay == InitOverlay /\ [][NextOverlay]_vars

\* C17 (as claimed): for the same landmarks draw_overlays and the fallback
\* of smart_crop_passport compute the same hairline and the same
\* hairline-to-chin span.
C17_OverlayCropAgree ==
    (opc = "o_returned" /\ pc = "hair_convert"
     /\ face_landmarks[TOP_HEAD] # None /\ face_landmarks[CHIN] # None) =>
        /\ ov_hair_top_y = fallback_hair_top
        /\ ov_face_display_h = Q * LandmarkY(CHIN) - fallback_hair_top

\* C18 (as claimed): every committed Photo row has status 'ready' or
\* 'failed'; its status is 'ready' exactly when it has a processed path and
\* exactly when its score is 100, and otherwise it has no path and score 0;
\* and a request that ended in an exception has committed no row.
C18_JobRecordInvariant ==
    /\ \A r \in photos :
          /\ r.status \in {"ready", "failed"}
          /\ (r.status = "ready") <=> (r.processed_path # "")
          /\ (r.status = "ready") <=> (r.compliance_score = 100)
          /\ r.status # "ready" =>
                r.processed_path = "" /\ r.compliance_score = 0
    /\ (upc = "done" /\ response.kind = "http_error") => photos = {}

====
